---------------------------- MODULE Spec2Model ----------------------------
(***************************************************************************)
(* Evaluation core of the BGI18 distributed interval function:             *)
(* funcs/src/interval/bgi18/data_structures.rs.                            *)
(*                                                                         *)
(*   Key, Node / CodeWord, MaskedNode, IntermediateNode                    *)
(*   MaskedNode::sample_masked_node, IntermediateNode::new,                *)
(*   IntermediateNode::unmask_node                                         *)
(*                                                                         *)
(* A Pair<T> is a function on BOOLEAN: pair[FALSE] is slot 0 and           *)
(* pair[TRUE] is slot 1.  A seed is a sequence of SeedLen bytes, a byte    *)
(* has ByteBits bits, the field F is the integers modulo FieldOrder.       *)
(* The generic PRG is a full-period linear congruential generator on       *)
(* PrgBits bits; the three ways the source reads it (fill_bytes,           *)
(* gen_bool, F::rand) consume its words one after another.                 *)
(***************************************************************************)
EXTENDS Naturals, Sequences, FiniteSets

\* ---------------------------------------------------------------- bounds
SeedLen == 1
ByteBits == 2
FieldOrder == 3
PrgBits == 5
MaxLogDomain == 2

Procs == {1, 2}

\* ------------------------------------------------------------ primitives
RECURSIVE Pow2(_)
Pow2(n) == IF n = 0 THEN 1 ELSE 2 * Pow2(n - 1)

ByteMod == Pow2(ByteBits)
Bytes == 0 .. (ByteMod - 1)
PrgMod == Pow2(PrgBits)

\* u8 ^ u8, bit by bit
RECURSIVE XorByte(_, _)
XorByte(a, b) ==
  IF a = 0 /\ b = 0 THEN 0
  ELSE (((a % 2) + (b % 2)) % 2) + 2 * XorByte(a \div 2, b \div 2)

\* bool ^ bool
XorBool(a, b) == a # b

\* F: addition in the field
FAdd(a, b) == (a + b) % FieldOrder
\* F::default(), the additive identity
FZero == 0
Field == 0 .. (FieldOrder - 1)

Seeds == [1 .. SeedLen -> Bytes]

\* Pair<T>
Pair(T) == [BOOLEAN -> T]
MkPair(a, b) == [s \in BOOLEAN |-> IF s THEN b ELSE a]

\* Option<T>
None == [some |-> FALSE]
Some(v) == [some |-> TRUE, val |-> v]

\* --------------------------------------------------------- data structures
\* struct Node / type CodeWord
Node == [seeds : Pair(Seeds), control_bits : Pair(BOOLEAN), elems : Pair(Field)]
MkNode(s0, s1, c0, c1, e0, e1) ==
  [seeds |-> MkPair(s0, s1), control_bits |-> MkPair(c0, c1),
   elems |-> MkPair(e0, e1)]

\* struct MaskedNode (the PhantomData marker holds nothing)
MaskedNode ==
  [masked_seeds : Pair(Seeds), masked_control_bits : Pair(BOOLEAN),
   masked_elems : Pair(Field)]

\* struct IntermediateNode
IntermediateNode == [seed : Seeds, control_bit : BOOLEAN]

\* -------------------------------------------------------------------- PRG
\* The stream of PRG::from_seed(seed): its state and how many words were read.
RECURSIVE SeedNum(_, _)
SeedNum(seed, n) ==
  IF n = 0 THEN 0 ELSE (SeedNum(seed, n - 1) * ByteMod + seed[n]) % PrgMod

from_seed(seed) == [s |-> (7 * SeedNum(seed, SeedLen) + 1) % PrgMod, pos |-> 0]

\* the generator's step
Lcg(s) == (5 * s + 11) % PrgMod

\* one word of the stream
next_word(prg) ==
  LET s == Lcg(prg.s)
  IN  [val |-> s, prg |-> [s |-> s, pos |-> prg.pos + 1]]

WordByte(w) == w \div Pow2(PrgBits - ByteBits)
WordBool(w) == w < (PrgMod \div 2)

RECURSIVE FieldBits(_)
FieldBits(k) == IF Pow2(k) >= FieldOrder THEN k ELSE FieldBits(k + 1)
WordCand(w) == w \div Pow2(PrgBits - FieldBits(0))

\* prg.fill_bytes(buf): one word per byte of the buffer
RECURSIVE fill_bytes(_, _)
fill_bytes(prg, n) ==
  IF n = 0 THEN [val |-> << >>, prg |-> prg]
  ELSE LET r == fill_bytes(prg, n - 1)
           w == next_word(r.prg)
       IN  [val |-> Append(r.val, WordByte(w.val)), prg |-> w.prg]

\* prg.gen_bool(0.5): one word, true when it is below half the range
gen_bool(prg) ==
  LET w == next_word(prg) IN [val |-> WordBool(w.val), prg |-> w.prg]

\* F::rand(&mut prg): words are drawn until one is a field element
RECURSIVE F_rand(_)
F_rand(prg) ==
  LET w == next_word(prg)
  IN  IF WordCand(w.val) < FieldOrder
      THEN [val |-> WordCand(w.val), prg |-> w.prg]
      ELSE F_rand(w.prg)

\* ------------------------------------------------------ sample_masked_node
\* The seed XORed byte-wise with another seed (the zip of the two byte views).
XorSeed(s, cs) == [i \in 1 .. SeedLen |-> XorByte(s[i], cs[i])]

\* sample_masked_node with the two seed draws in the other order: child 1
\* is filled from the stream before child 0.
sample_masked_node_child1_first(node) ==
  LET prg == from_seed(node.seed)
      s1 == fill_bytes(prg, SeedLen)
      s0 == fill_bytes(s1.prg, SeedLen)
      b0 == gen_bool(s0.prg)
      b1 == gen_bool(b0.prg)
      e0 == F_rand(b1.prg)
      e1 == F_rand(e0.prg)
  IN  [masked |->
         [masked_seeds |-> MkPair(s0.val, s1.val),
          masked_control_bits |-> MkPair(b0.val, b1.val),
          masked_elems |-> MkPair(e0.val, e1.val)],
       draws |->
         << [slot |-> "seed1", pos |-> prg.pos],
            [slot |-> "seed0", pos |-> s1.prg.pos],
            [slot |-> "bit0", pos |-> s0.prg.pos],
            [slot |-> "bit1", pos |-> b0.prg.pos],
            [slot |-> "elem0", pos |-> b1.prg.pos],
            [slot |-> "elem1", pos |-> e0.prg.pos] >>,
       used |-> e1.prg.pos]

\* sample_masked_node with the node's control bit folded into the PRG seed.
sample_masked_node_uses_control_bit(node) ==
  LET prg == from_seed(IF node.control_bit
                       THEN [i \in 1 .. SeedLen |-> (node.seed[i] + 1) % ByteMod]
                       ELSE node.seed)
      s0 == fill_bytes(prg, SeedLen)
      s1 == fill_bytes(s0.prg, SeedLen)
      b0 == gen_bool(s1.prg)
      b1 == gen_bool(b0.prg)
      e0 == F_rand(b1.prg)
      e1 == F_rand(e0.prg)
  IN  [masked |->
         [masked_seeds |-> MkPair(s0.val, s1.val),
          masked_control_bits |-> MkPair(b0.val, b1.val),
          masked_elems |-> MkPair(e0.val, e1.val)],
       draws |->
         << [slot |-> "seed0", pos |-> prg.pos],
            [slot |-> "seed1", pos |-> s0.prg.pos],
            [slot |-> "bit0", pos |-> s1.prg.pos],
            [slot |-> "bit1", pos |-> b0.prg.pos],
            [slot |-> "elem0", pos |-> b1.prg.pos],
            [slot |-> "elem1", pos |-> e0.prg.pos] >>,
       used |-> e1.prg.pos]

\* MaskedNode::sample_masked_node(node).  `masked` is the value returned;
\* `draws` records, for each slot filled, the stream position the draw
\* started at, in the order of the draws.
sample_masked_node(node) ==
  LET prg == from_seed(node.seed)
      s0 == fill_bytes(prg, SeedLen)
      s1 == fill_bytes(s0.prg, SeedLen)
      b0 == gen_bool(s1.prg)
      b1 == gen_bool(b0.prg)
      e0 == F_rand(b1.prg)
      e1 == F_rand(e0.prg)
  IN  [masked |->
         [masked_seeds |-> MkPair(s0.val, s1.val),
          masked_control_bits |-> MkPair(b0.val, b1.val),
          masked_elems |-> MkPair(e0.val, e1.val)],
       draws |->
         << [slot |-> "seed0", pos |-> prg.pos],
            [slot |-> "seed1", pos |-> s0.prg.pos],
            [slot |-> "bit0", pos |-> s1.prg.pos],
            [slot |-> "bit1", pos |-> b0.prg.pos],
            [slot |-> "elem0", pos |-> b1.prg.pos],
            [slot |-> "elem1", pos |-> e0.prg.pos] >>,
       used |-> e1.prg.pos]

\* ------------------------------------------------------- IntermediateNode
\* IntermediateNode::new(bit, node)
IntermediateNode_new(bit, node) ==
  [seed |-> node.seeds[bit], control_bit |-> node.control_bits[bit]]

\* unmask_node reading the codeword's other slot (1 - bit).
unmask_node_other_slot(bit, masked_node, codeword, accumulator) ==
  LET seeds == [masked_node.masked_seeds EXCEPT
                  ![bit] = XorSeed(@, codeword.seeds[~bit])]
      bits == [masked_node.masked_control_bits EXCEPT
                  ![bit] = XorBool(@, codeword.control_bits[~bit])]
  IN  [node |-> [seed |-> seeds[bit], control_bit |-> bits[bit]],
       accumulator |->
         IF accumulator.some
         THEN Some(FAdd(accumulator.val,
                        FAdd(masked_node.masked_elems[bit], codeword.elems[~bit])))
         ELSE None,
       codeword |-> codeword]

\* unmask_node adding the masked element alone, without the codeword's.
unmask_node_drop_codeword_elem(bit, masked_node, codeword, accumulator) ==
  LET seeds == [masked_node.masked_seeds EXCEPT
                  ![bit] = XorSeed(@, codeword.seeds[bit])]
      bits == [masked_node.masked_control_bits EXCEPT
                  ![bit] = XorBool(@, codeword.control_bits[bit])]
  IN  [node |-> [seed |-> seeds[bit], control_bit |-> bits[bit]],
       accumulator |->
         IF accumulator.some
         THEN Some(FAdd(accumulator.val, masked_node.masked_elems[bit]))
         ELSE None,
       codeword |-> codeword]

\* unmask_node assigning to the accumulator (=) where the source adds (+=).
unmask_node_overwrite_acc(bit, masked_node, codeword, accumulator) ==
  LET seeds == [masked_node.masked_seeds EXCEPT
                  ![bit] = XorSeed(@, codeword.seeds[bit])]
      bits == [masked_node.masked_control_bits EXCEPT
                  ![bit] = XorBool(@, codeword.control_bits[bit])]
  IN  [node |-> [seed |-> seeds[bit], control_bit |-> bits[bit]],
       accumulator |->
         IF accumulator.some
         THEN Some(FAdd(masked_node.masked_elems[bit], codeword.elems[bit]))
         ELSE None,
       codeword |-> codeword]

\* unmask_node XORing in place into the shared codeword as well as into its
\* own masked node.
unmask_node_xor_into_codeword(bit, masked_node, codeword, accumulator) ==
  LET seeds == [masked_node.masked_seeds EXCEPT
                  ![bit] = XorSeed(@, codeword.seeds[bit])]
      bits == [masked_node.masked_control_bits EXCEPT
                  ![bit] = XorBool(@, codeword.control_bits[bit])]
  IN  [node |-> [seed |-> seeds[bit], control_bit |-> bits[bit]],
       accumulator |->
         IF accumulator.some
         THEN Some(FAdd(accumulator.val,
                        FAdd(masked_node.masked_elems[bit], codeword.elems[bit])))
         ELSE None,
       codeword |-> [codeword EXCEPT !.seeds[bit] = seeds[bit]]]

\* IntermediateNode::unmask_node(bit, masked_node, codeword, accumulator).
\* `node` is the value returned, `accumulator` what the Option<&mut F>
\* refers to after the call, `codeword` the borrowed codeword after the call
\* (a shared borrow: as it was).
unmask_node(bit, masked_node, codeword, accumulator) ==
  LET seeds == [masked_node.masked_seeds EXCEPT
                  ![bit] = XorSeed(@, codeword.seeds[bit])]
      bits == [masked_node.masked_control_bits EXCEPT
                  ![bit] = XorBool(@, codeword.control_bits[bit])]
  IN  [node |-> [seed |-> seeds[bit], control_bit |-> bits[bit]],
       accumulator |->
         IF accumulator.some
         THEN Some(FAdd(accumulator.val,
                        FAdd(masked_node.masked_elems[bit], codeword.elems[bit])))
         ELSE None,
       codeword |-> codeword]

\* -------------------------------------------------------------- the walk
\* struct Key: log_domain, root and the shared codewords, one Pair per level.
MkKey(ld, root, cws) == [log_domain |-> ld, root |-> root, codewords |-> cws]

\* A check that only asks for enough codewords.
key_accepts_longer(k) == Len(k.codewords) >= k.log_domain

\* codewords.len() == log_domain
key_well_formed(k) == Len(k.codewords) = k.log_domain

\* The codeword picked by the input bit of the level.
select_codeword_by_input_bit(k, lvl, cur, bit) == k.codewords[lvl + 1][bit]

\* The codeword of a level's Pair that the unmask step is given: the one at
\* the index of the current path's control bit (`bit` is the input bit x_i).
select_codeword(k, lvl, cur, bit) == k.codewords[lvl + 1][cur.control_bit]

\* A walk that stops one level early.
walk_done_one_short(k, lvl) == lvl + 1 >= k.log_domain

\* The walk is over after log_domain levels.
walk_done(k, lvl) == lvl = k.log_domain

\* evaluate(key, x) for one party, run on its own: the accumulator after
\* log_domain levels of sample_masked_node and unmask_node.
RECURSIVE walk_from(_, _, _, _, _)
walk_from(k, bits, cur, a, lvl) ==
  IF walk_done(k, lvl) THEN a
  ELSE LET m == sample_masked_node(cur).masked
           r == unmask_node(bits[lvl + 1], m, select_codeword(k, lvl, cur, bits[lvl + 1]), Some(a))
       IN  walk_from(k, bits, r.node, r.accumulator.val, lvl + 1)

evaluate(k, pty, bits) ==
  walk_from(k, bits, IntermediateNode_new(pty, k.root), FZero, 0)

VARIABLES key, pc, x, party, node, masked, acc, level, prg_calls, hist, call, ret

vars == <<key, pc, x, party, node, masked, acc, level, prg_calls, hist, call, ret>>
walk_vars == <<key, pc, x, party, node, masked, acc, level, prg_calls, hist>>

\* Inputs of the walk: seeds, codewords, roots and keys to draw from.
SampleSeed(k) == [i \in 1 .. SeedLen |-> (k + i - 1) % ByteMod]
CwA == MkNode(SampleSeed(1), SampleSeed(2), TRUE, FALSE, 1 % FieldOrder, 2 % FieldOrder)
CwB == MkNode(SampleSeed(3), SampleSeed(0), FALSE, FALSE, 0, 1 % FieldOrder)
CwC == MkNode(SampleSeed(2), SampleSeed(3), TRUE, TRUE, 2 % FieldOrder, 0)
CodewordPairs == {MkPair(CwA, CwB), MkPair(CwB, CwC)}
Roots == {MkNode(SampleSeed(0), SampleSeed(1), FALSE, TRUE, 0, 0),
          MkNode(SampleSeed(3), SampleSeed(2), TRUE, TRUE, 0, 0)}
Keys ==
  UNION {{MkKey(ld, r, cws) : r \in Roots, cws \in [1 .. n -> CodewordPairs]} :
           ld \in 0 .. MaxLogDomain, n \in 0 .. MaxLogDomain}

Idle == [p \in Procs |-> None]

Init ==
  /\ key \in Keys
  /\ x \in [Procs -> [1 .. key.log_domain -> BOOLEAN]]
  /\ party \in [Procs -> BOOLEAN]
  /\ pc = [p \in Procs |-> "start"]
  /\ node = Idle
  /\ masked = Idle
  /\ acc = Idle
  /\ level = [p \in Procs |-> 0]
  /\ prg_calls = [p \in Procs |-> 0]
  /\ hist = [p \in Procs |-> << >>]
  /\ call = None
  /\ ret = None

\* evaluate, on a key whose codewords do not match log_domain: the
\* malformed-key error, before anything else.
Reject(p) ==
  /\ pc[p] = "start"
  /\ ~key_well_formed(key)
  /\ pc' = [pc EXCEPT ![p] = "rejected"]
  /\ UNCHANGED <<key, x, party, node, masked, acc, level, prg_calls, hist, call, ret>>

\* evaluate: the current node from the root, the accumulator at zero.
Start(p) ==
  /\ pc[p] = "start"
  /\ key_well_formed(key)
  /\ node' = [node EXCEPT ![p] = Some(IntermediateNode_new(party[p], key.root))]
  /\ acc' = [acc EXCEPT ![p] = Some(FZero)]
  /\ pc' = [pc EXCEPT ![p] = IF walk_done(key, 0) THEN "done" ELSE "sample"]
  /\ UNCHANGED <<key, x, party, masked, level, prg_calls, hist, call, ret>>

\* one level, first half: MaskedNode::sample_masked_node(&node)
Sample(p) ==
  /\ pc[p] = "sample"
  /\ masked' = [masked EXCEPT ![p] = Some(sample_masked_node(node[p].val).masked)]
  /\ prg_calls' = [prg_calls EXCEPT ![p] = @ + 1]
  /\ pc' = [pc EXCEPT ![p] = "unmask"]
  /\ UNCHANGED <<key, x, party, node, acc, level, hist, call, ret>>

\* one level, second half:
\* IntermediateNode::unmask_node(x_i, masked, &codeword, Some(&mut acc))
Unmask(p) ==
  /\ pc[p] = "unmask"
  /\ LET cur == node[p].val
         bit == x[p][level[p] + 1]
         r == unmask_node(bit, masked[p].val, select_codeword(key, level[p], cur, bit),
                          acc[p])
     IN  /\ node' = [node EXCEPT ![p] = Some(r.node)]
         /\ acc' = [acc EXCEPT ![p] = r.accumulator]
         /\ key' = [key EXCEPT !.codewords[level[p] + 1][cur.control_bit] = r.codeword]
         /\ hist' = [hist EXCEPT ![p] =
                       Append(@, [from |-> cur, bit |-> bit, masked |-> masked[p].val,
                                  to |-> r.node,
                                  before |-> acc[p].val, after |-> r.accumulator.val])]
  /\ masked' = [masked EXCEPT ![p] = None]
  /\ level' = [level EXCEPT ![p] = @ + 1]
  /\ pc' = [pc EXCEPT ![p] = IF walk_done(key, level[p] + 1) THEN "done" ELSE "sample"]
  /\ UNCHANGED <<x, party, prg_calls, call, ret>>

Next == \E p \in Procs : Reject(p) \/ Start(p) \/ Sample(p) \/ Unmask(p)

Spec == Init /\ [][Next]_vars

\* ------------------------------------------- unmask_node on arbitrary inputs
\* The walk is not running in the specifications below.
NoWalk ==
  /\ key = MkKey(0, CHOOSE r \in Roots : TRUE, << >>)
  /\ x = [p \in Procs |-> << >>]
  /\ party = [p \in Procs |-> FALSE]
  /\ pc = [p \in Procs |-> "idle"]
  /\ node = Idle
  /\ masked = Idle
  /\ acc = Idle
  /\ level = [p \in Procs |-> 0]
  /\ prg_calls = [p \in Procs |-> 0]
  /\ hist = [p \in Procs |-> << >>]

\* A slot that differs from (s, b, e) in every component.
OtherSeed(s) == [i \in 1 .. SeedLen |-> (s[i] + 1) % ByteMod]
OtherElem(e) == (e + 1) % FieldOrder

\* A node holding (s, b, e) in slot `bit`; the other slot holds the same
\* values when `twin`, and values that all differ otherwise.
NodeWith(bit, s, b, e, twin) ==
  [seeds |-> [t \in BOOLEAN |-> IF t = bit \/ twin THEN s ELSE OtherSeed(s)],
   control_bits |-> [t \in BOOLEAN |-> IF t = bit \/ twin THEN b ELSE ~b],
   elems |-> [t \in BOOLEAN |-> IF t = bit \/ twin THEN e ELSE OtherElem(e)]]

AsMasked(n) ==
  [masked_seeds |-> n.seeds, masked_control_bits |-> n.control_bits,
   masked_elems |-> n.elems]

UnmaskCall(bit, sm, bm, em, sc, bc, ec, a, twin) ==
  [bit |-> bit, masked_node |-> AsMasked(NodeWith(bit, sm, bm, em, twin)),
   codeword |-> NodeWith(bit, sc, bc, ec, twin), accumulator |-> Some(a)]

\* Every pair of seeds and control bits, or every triple of field elements.
InitUnmask ==
  /\ NoWalk
  /\ \E bit \in BOOLEAN, twin \in BOOLEAN, bm \in BOOLEAN, bc \in BOOLEAN :
       \/ \E sm \in Seeds, sc \in Seeds :
            call = UnmaskCall(bit, sm, bm, sm[1] % FieldOrder, sc, bc,
                              (sc[1] + 1) % FieldOrder, 1 % FieldOrder, twin)
       \/ \E em \in Field, ec \in Field, a \in Field :
            call = UnmaskCall(bit, SampleSeed(1), bm, em, SampleSeed(3), bc, ec, a, twin)
  /\ ret = [with |-> None, without |-> None]

\* unmask_node(bit, masked_node, &codeword, Some(&mut acc))
CallUnmask ==
  /\ ~ret.with.some
  /\ ret' = [ret EXCEPT !.with =
               Some(unmask_node(call.bit, call.masked_node, call.codeword,
                                call.accumulator))]
  /\ UNCHANGED <<call, walk_vars>>

\* unmask_node(bit, masked_node, &codeword, None)
CallUnmaskNone ==
  /\ ~ret.without.some
  /\ ret' = [ret EXCEPT !.without =
               Some(unmask_node(call.bit, call.masked_node, call.codeword, None))]
  /\ UNCHANGED <<call, walk_vars>>

NextUnmask == CallUnmask \/ CallUnmaskNone

SpecUnmask == InitUnmask /\ [][NextUnmask]_vars

\* ------------------------------------ sample_masked_node on arbitrary inputs
InitSample ==
  /\ NoWalk
  /\ call \in [a : IntermediateNode, b : IntermediateNode]
  /\ ret = [a |-> None, b |-> None]

\* MaskedNode::sample_masked_node(&a)
CallSampleA ==
  /\ ~ret.a.some
  /\ ret' = [ret EXCEPT !.a = Some(sample_masked_node(call.a))]
  /\ UNCHANGED <<call, walk_vars>>

\* MaskedNode::sample_masked_node(&b)
CallSampleB ==
  /\ ~ret.b.some
  /\ ret' = [ret EXCEPT !.b = Some(sample_masked_node(call.b))]
  /\ UNCHANGED <<call, walk_vars>>

NextSample == CallSampleA \/ CallSampleB

SpecSample == InitSample /\ [][NextSample]_vars

\* ------------------------------------------------------------ properties
Bit(v, k) == (v \div Pow2(k)) % 2

\* The k-th word (k >= 1) of the stream of PRG::from_seed(seed).
RECURSIVE StreamState(_, _)
StreamState(seed, k) ==
  IF k = 0 THEN from_seed(seed).s ELSE Lcg(StreamState(seed, k - 1))

\* The first stream position at or after `from` whose word is a field element.
FirstField(seed, from) ==
  CHOOSE k \in from .. (from + PrgMod) :
    /\ WordCand(StreamState(seed, k)) < FieldOrder
    /\ \A j \in from .. (k - 1) : WordCand(StreamState(seed, j)) >= FieldOrder

\* ---- C2 (under SpecUnmask)
UnmaskedAtSlotB(r) ==
  LET b == call.bit
      ms == call.masked_node.masked_seeds[b]
      cs == call.codeword.seeds[b]
  IN  /\ DOMAIN r.node.seed = 1 .. SeedLen
      /\ \A i \in 1 .. SeedLen :
           /\ r.node.seed[i] \in Bytes
           /\ \A k \in 0 .. (ByteBits - 1) :
                Bit(r.node.seed[i], k) = (IF Bit(ms[i], k) = Bit(cs[i], k) THEN 0 ELSE 1)
      /\ r.node.control_bit =
           (call.masked_node.masked_control_bits[b] # call.codeword.control_bits[b])

\* C2: unmask_node returns the seed that is the byte-wise XOR of the masked
\* seed and the codeword's seed, and the control bit that is the XOR of the
\* masked control bit and the codeword's, all four taken at slot b = bit.
C2_UnmaskXorsSlotB ==
  /\ ret.with.some => UnmaskedAtSlotB(ret.with.val)
  /\ ret.without.some => UnmaskedAtSlotB(ret.without.val)

\* The call has returned on a masked node and a codeword whose two slots
\* differ, with a codeword seed that changes the masked seed.
C2_Witness ==
  /\ ret.with.some
  /\ call.codeword.seeds[call.bit] # call.codeword.seeds[~call.bit]
  /\ call.codeword.control_bits[call.bit] # call.codeword.control_bits[~call.bit]
  /\ call.masked_node.masked_seeds[call.bit] # call.masked_node.masked_seeds[~call.bit]
  /\ ret.with.val.node.seed # call.masked_node.masked_seeds[call.bit]
  /\ call.codeword.control_bits[call.bit]

\* ---- C3 (under SpecUnmask)
\* C3: with an accumulator holding a, the accumulator afterwards holds
\* a + masked_elems[bit] + codeword.elems[bit] modulo the field order;
\* without one there is no accumulator value afterwards, and the node
\* returned is the one returned with an accumulator.
C3_AccumulatorUpdate ==
  /\ ret.with.some =>
       ret.with.val.accumulator =
         Some((call.accumulator.val + call.masked_node.masked_elems[call.bit]
               + call.codeword.elems[call.bit]) % FieldOrder)
  /\ ret.without.some => ret.without.val.accumulator = None
  /\ (ret.with.some /\ ret.without.some) =>
       ret.with.val.node = ret.without.val.node

\* Both calls have returned, the sum wrapped around the field order, and the
\* two slots hold different field elements.
C3_Witness ==
  /\ ret.with.some
  /\ ret.without.some
  /\ call.accumulator.val + call.masked_node.masked_elems[call.bit]
       + call.codeword.elems[call.bit] >= FieldOrder
  /\ call.codeword.elems[call.bit] # 0
  /\ call.codeword.elems[call.bit] # call.codeword.elems[~call.bit]
  /\ call.masked_node.masked_elems[call.bit] # call.masked_node.masked_elems[~call.bit]

\* ---- C4 (under SpecSample)
SlotOrder == <<"seed0", "seed1", "bit0", "bit1", "elem0", "elem1">>

DrawsInOrder(nd, r) ==
  LET W(k) == StreamState(nd.seed, k)
      k0 == FirstField(nd.seed, 2 * SeedLen + 3)
      k1 == FirstField(nd.seed, k0 + 1)
  IN  /\ r.masked.masked_seeds[FALSE] = [i \in 1 .. SeedLen |-> WordByte(W(i))]
      /\ r.masked.masked_seeds[TRUE] = [i \in 1 .. SeedLen |-> WordByte(W(SeedLen + i))]
      /\ r.masked.masked_control_bits[FALSE] = WordBool(W(2 * SeedLen + 1))
      /\ r.masked.masked_control_bits[TRUE] = WordBool(W(2 * SeedLen + 2))
      /\ r.masked.masked_elems[FALSE] = WordCand(W(k0))
      /\ r.masked.masked_elems[TRUE] = WordCand(W(k1))
      /\ [i \in 1 .. 6 |-> r.draws[i].slot] = SlotOrder
      /\ [i \in 1 .. 6 |-> r.draws[i].pos] =
           <<0, SeedLen, 2 * SeedLen, 2 * SeedLen + 1, 2 * SeedLen + 2, k0>>
      /\ r.used = k1

\* C4: sample_masked_node reads one stream, seeded from the node's seed, in
\* the order seed 0, seed 1, control bit 0, control bit 1, field element 0,
\* field element 1, and each slot holds the draw made at its position.
C4_DrawOrder ==
  /\ ret.a.some => DrawsInOrder(call.a, ret.a.val)
  /\ ret.b.some => DrawsInOrder(call.b, ret.b.val)

\* A call has returned whose two seeds, two control bits and two field
\* elements differ, after at least one rejected field candidate.
C4_Witness ==
  /\ ret.a.some
  /\ ret.a.val.masked.masked_seeds[FALSE] # ret.a.val.masked.masked_seeds[TRUE]
  /\ ret.a.val.masked.masked_control_bits[FALSE] # ret.a.val.masked.masked_control_bits[TRUE]
  /\ ret.a.val.masked.masked_elems[FALSE] # ret.a.val.masked.masked_elems[TRUE]
  /\ ret.a.val.used > 2 * SeedLen + 4

\* ---- C6 (under SpecSample)
\* C6: two nodes with the same seed, whatever their control bits, give the
\* same MaskedNode, and a call leaves its argument and every other variable
\* as they were.
C6_PureInSeed ==
  /\ [](ret.a.some /\ ret.b.some /\ call.a.seed = call.b.seed
          => ret.a.val.masked = ret.b.val.masked)
  /\ [][call' = call /\ walk_vars' = walk_vars]_vars

\* Both calls have returned, on equal seeds and different control bits.
C6_Witness ==
  /\ ret.a.some
  /\ ret.b.some
  /\ call.a.seed = call.b.seed
  /\ call.a.control_bit # call.b.control_bit

\* ---- C5 (under Spec)
\* What unmask_node makes of slot `bit` of the masked node `m` and of the
\* codeword `cw`, and what was held before.
StepUses(h, cw) ==
  /\ h.to.seed = XorSeed(h.masked.masked_seeds[h.bit], cw.seeds[h.bit])
  /\ h.to.control_bit = (h.masked.masked_control_bits[h.bit] # cw.control_bits[h.bit])
  /\ h.after = (h.before + h.masked.masked_elems[h.bit] + cw.elems[h.bit]) % FieldOrder

\* C5: at every level of every walk, the step applied the codeword that the
\* level's Pair holds at the index of the current node's control bit, and
\* the input bit of the level chose the slot read from the masked node and
\* from that codeword.
C5_CodewordByControlBit ==
  \A p \in Procs : \A i \in 1 .. Len(hist[p]) :
    /\ hist[p][i].bit = x[p][i]
    /\ StepUses(hist[p][i], key.codewords[i][hist[p][i].from.control_bit])

\* A level was walked whose input bit differs from the control bit, and at
\* which the codeword at the input bit's index would have given another step.
C5_Witness ==
  \E p \in Procs : \E i \in 1 .. Len(hist[p]) :
    /\ hist[p][i].bit # hist[p][i].from.control_bit
    /\ ~StepUses(hist[p][i], key.codewords[i][hist[p][i].bit])

\* ---- C7 (under Spec)
\* C7: for a key whose codewords sequence is not log_domain long, an
\* evaluation is rejected: it makes no PRG call, samples no masked node and
\* holds no accumulator value.
C7_MalformedKeyRejected ==
  \A p \in Procs :
    /\ Len(key.codewords) # key.log_domain =>
         /\ pc[p] \in {"start", "rejected"}
         /\ prg_calls[p] = 0
         /\ masked[p] = None
         /\ acc[p] = None
    /\ pc[p] = "rejected" => Len(key.codewords) # key.log_domain

\* An evaluation was rejected, on a key with more codewords than levels.
C7_Witness ==
  \E p \in Procs :
    /\ pc[p] = "rejected"
    /\ Len(key.codewords) > key.log_domain

\* ---- C8 (under Spec)
WorkSoFar ==
  \A p \in Procs :
    /\ prg_calls[p] = level[p] + (IF pc[p] = "unmask" THEN 1 ELSE 0)
    /\ prg_calls[p] <= key.log_domain
    /\ pc[p] = "done" => prg_calls[p] = key.log_domain /\ level[p] = key.log_domain

\* The steps an evaluation has left at most.
StepsLeft(p) ==
  CASE pc[p] = "start" -> 2 * key.log_domain + 1
    [] pc[p] = "sample" -> 2 * (key.log_domain - level[p])
    [] pc[p] = "unmask" -> 2 * (key.log_domain - level[p]) - 1
    [] OTHER -> 0

\* C8: an evaluation makes one PRG expansion per level walked, never more
\* than log_domain of them and exactly log_domain when it is done, whatever
\* the input and the control bits; and each of its steps brings it nearer
\* its end, the other evaluation's steps leaving it where it is.
C8_UniformWork ==
  /\ []WorkSoFar
  /\ [][\E p \in Procs :
          /\ StepsLeft(p)' < StepsLeft(p)
          /\ \A q \in Procs \ {p} : StepsLeft(q)' = StepsLeft(q)]_vars

\* Two evaluations of at least two levels are done, on different inputs and
\* through different control bits.
C8_Witness ==
  /\ pc[1] = "done"
  /\ pc[2] = "done"
  /\ key.log_domain >= 2
  /\ x[1] # x[2]
  /\ \E i \in 1 .. key.log_domain :
       hist[1][i].from.control_bit # hist[2][i].from.control_bit
  /\ prg_calls[1] = key.log_domain

\* ---- C9 (under Spec)
\* C9: however the steps of the two evaluations interleave, an evaluation
\* that is done holds the share its input gives when run alone, and no step
\* changes the key.
C9_IndependentEvaluations ==
  /\ [](\A p \in Procs :
          pc[p] = "done" => acc[p] = Some(evaluate(key, party[p], x[p])))
  /\ [][key' = key]_vars

\* One evaluation is done while the other, on another input, is part-way
\* through, both having read the same codeword at the first level.
C9_Witness ==
  /\ pc[1] = "done"
  /\ pc[2] = "unmask"
  /\ level[2] >= 1
  /\ key.log_domain >= 2
  /\ x[1] # x[2]
  /\ hist[1][1].from.control_bit = hist[2][1].from.control_bit

\* ---- C10 (under Spec)
Added(h) == (h.after + FieldOrder - h.before) % FieldOrder

\* C10: two walks that hold the same node at a level and read the same
\* input bits from there on hold the same node after every later level and
\* add the same amount at each.
C10_EqualNodesStayEqual ==
  \A p \in Procs, q \in Procs :
    \A i \in 1 .. Len(hist[p]), j \in 1 .. Len(hist[p]) :
      ( /\ i <= j
        /\ j <= Len(hist[q])
        /\ hist[p][i].from = hist[q][i].from
        /\ \A l \in i .. j : hist[p][l].bit = hist[q][l].bit )
      => /\ hist[p][j].to = hist[q][j].to
         /\ Added(hist[p][j]) = Added(hist[q][j])

\* Two walks that started from different nodes hold the same node at the
\* second level, hold different accumulators there, and have walked it on the
\* same input bit.
C10_Witness ==
  /\ Len(hist[1]) >= 2
  /\ Len(hist[2]) >= 2
  /\ (hist[1][1].from # hist[2][1].from \/ hist[1][1].bit # hist[2][1].bit)
  /\ hist[1][2].from = hist[2][2].from
  /\ hist[1][2].before # hist[2][2].before
  /\ hist[1][2].bit = hist[2][2].bit

=============================================================================
